---- MODULE Spec2Model ----
(***************************************************************************)
(* Model of MessageCounterBot (src/main.py): the per-group message ledger, *)
(* the group and admin registries, their three JSON documents on disk, and *)
(* the handlers that python-telegram-bot dispatches one update at a time.  *)
(*                                                                         *)
(* Python strings that the code parses or compares (command arguments,     *)
(* group ids, usernames) are sequences of one-character strings; strings   *)
(* the code only stores (titles, message text) are TLA+ strings.  An       *)
(* optional value (username or None) is a sequence of length 0 or 1.       *)
(* Timestamps are whole seconds since the epoch (Telegram dates have       *)
(* one-second resolution).                                                 *)
(***************************************************************************)
EXTENDS Integers, Sequences, FiniteSets, TLC

(* ------------------------------ bounds -------------------------------- *)

\* Largest number of records the ledger holds over all partitions.
MaxMsgs == 2

\* Longest partition of a document drawn by InitRT.
MaxDocLen == 1

(* --------------------------- Python strings --------------------------- *)

Digits == {"0", "1", "2", "3", "4", "5", "6", "7", "8", "9"}

DigitVal(c) ==
    CASE c = "0" -> 0 [] c = "1" -> 1 [] c = "2" -> 2 [] c = "3" -> 3
      [] c = "4" -> 4 [] c = "5" -> 5 [] c = "6" -> 6 [] c = "7" -> 7
      [] c = "8" -> 8 [] c = "9" -> 9

DigitChar(d) ==
    CASE d = 0 -> "0" [] d = 1 -> "1" [] d = 2 -> "2" [] d = 3 -> "3"
      [] d = 4 -> "4" [] d = 5 -> "5" [] d = 6 -> "6" [] d = 7 -> "7"
      [] d = 8 -> "8" [] d = 9 -> "9"

AllDigits(s) == \A i \in 1..Len(s) : s[i] \in Digits

RECURSIVE DigitsValue(_)
DigitsValue(s) ==
    IF s = <<>> THEN 0
    ELSE 10 * DigitsValue(SubSeq(s, 1, Len(s) - 1)) + DigitVal(s[Len(s)])

\* s with every occurrence of character c removed: str.replace(c, '').
RECURSIVE Remove(_, _)
Remove(s, c) ==
    IF s = <<>> THEN <<>>
    ELSE IF Head(s) = c THEN Remove(Tail(s), c)
    ELSE <<Head(s)>> \o Remove(Tail(s), c)

\* int(s) for a token without whitespace: an optional sign, then decimal
\* digits in which single underscores may separate digits.  ok = FALSE is
\* the ValueError.
PyInt(s) ==
    LET signed == s # <<>> /\ s[1] \in {"+", "-"}
        body   == IF signed THEN Tail(s) ELSE s
        n      == Len(body)
        wellFormed ==
            /\ n > 0
            /\ body[1] \in Digits
            /\ body[n] \in Digits
            /\ \A i \in 1..n : body[i] \in Digits \cup {"_"}
            /\ \A i \in 1..(n - 1) : ~(body[i] = "_" /\ body[i + 1] = "_")
        mag    == DigitsValue(Remove(body, "_"))
    IN  IF wellFormed
        THEN [ok |-> TRUE, val |-> IF signed /\ s[1] = "-" THEN 0 - mag ELSE mag]
        ELSE [ok |-> FALSE, val |-> 0]

RECURSIVE NatStr(_)
NatStr(n) ==
    IF n < 10 THEN <<DigitChar(n)>>
    ELSE NatStr(n \div 10) \o <<DigitChar(n % 10)>>

\* str(n) for an integer n.
PyStr(n) == IF n < 0 THEN <<"-">> \o NatStr(0 - n) ELSE NatStr(n)

(* ------------------------------- dates -------------------------------- *)

\* timedelta(days=1) in seconds.
SecondsPerDay == 86400

\* date(1970, 1, 1).toordinal(): the day number of the epoch.
EpochOrdinal == 719163

IsLeap(y) == (y % 4 = 0) /\ ((y % 100 # 0) \/ (y % 400 = 0))

DaysInMonth(y, m) ==
    IF m = 2 THEN (IF IsLeap(y) THEN 29 ELSE 28)
    ELSE IF m \in {4, 6, 9, 11} THEN 30 ELSE 31

RECURSIVE DaysBeforeMonth(_, _)
DaysBeforeMonth(y, m) ==
    IF m = 1 THEN 0 ELSE DaysBeforeMonth(y, m - 1) + DaysInMonth(y, m - 1)

\* The proleptic Gregorian ordinal of y-m-d (1 is 0001-01-01).
Ordinal(y, m, d) ==
    LET p == y - 1
    IN  p * 365 + (p \div 4) - (p \div 100) + (p \div 400) + DaysBeforeMonth(y, m) + d

\* The %m directive: 1[0-2] | 0[1-9] | [1-9].
MonthField(s) ==
    \/ Len(s) = 2 /\ s[1] = "1" /\ s[2] \in {"0", "1", "2"}
    \/ Len(s) = 2 /\ s[1] = "0" /\ s[2] \in Digits \ {"0"}
    \/ Len(s) = 1 /\ s[1] \in Digits \ {"0"}

\* The %d directive: 3[0-1] | [1-2]\d | 0[1-9] | [1-9] | ' '[1-9].
DayField(s) ==
    \/ Len(s) = 2 /\ s[1] = "3" /\ s[2] \in {"0", "1"}
    \/ Len(s) = 2 /\ s[1] \in {"1", "2"} /\ s[2] \in Digits
    \/ Len(s) = 2 /\ s[1] \in {"0", " "} /\ s[2] \in Digits \ {"0"}
    \/ Len(s) = 1 /\ s[1] \in Digits \ {"0"}

\* datetime.strptime(s, '%Y-%m-%d'): four digits, '-', a month field, '-',
\* a day field and nothing after it, then the date constructor's range
\* checks (year >= 1, day within the month).  ok = FALSE is the ValueError.
Strptime(s) ==
    LET n      == Len(s)
        dashes == {p \in 7..(n - 1) : s[p] = "-"}
        p      == IF dashes = {} THEN 0 ELSE CHOOSE q \in dashes : \A r \in dashes : q <= r
        ys     == SubSeq(s, 1, 4)
        ms     == SubSeq(s, 6, p - 1)
        ds     == SubSeq(s, p + 1, n)
        shape  == /\ n >= 8
                  /\ AllDigits(ys)
                  /\ s[5] = "-"
                  /\ p # 0
                  /\ MonthField(ms)
                  /\ DayField(ds)
        y      == DigitsValue(ys)
        m      == DigitsValue(ms)
        d      == DigitsValue(Remove(ds, " "))
    IN  IF shape /\ y >= 1 /\ d <= DaysInMonth(y, m)
        THEN [d |-> d, m |-> m, ok |-> TRUE, y |-> y]
        ELSE [d |-> 0, m |-> 0, ok |-> FALSE, y |-> 0]

\* datetime(y, m, d, tzinfo=UTC).timestamp().
MidnightUTC(dt) == (Ordinal(dt.y, dt.m, dt.d) - EpochOrdinal) * SecondsPerDay

\* dt + timedelta(days=1) raises OverflowError past date.max (9999-12-31).
NextDayOverflows(dt) == dt.y = 9999 /\ dt.m = 12 /\ dt.d = 31

(* --------------------------- input domains ---------------------------- *)

\* context.bot.id: the bot's own user id, told apart from every human user.
BotId == 1

\* The users of the model: id 42 has username "alice", id 7 has none.
UserIds == {42, 7}

S_alice == <<"a", "l", "i", "c", "e">>
S_Alice == <<"A", "l", "i", "c", "e">>

\* from_user.username: a string, or None (the empty option).
UsernameOf(uid) == IF uid = 42 THEN <<S_alice>> ELSE <<>>

\* Chats: two groups, and one private chat per user (its id is the user's).
GroupChatIds == {100, -200}

ChatTypeOf(cid) ==
    IF cid = 100 THEN "group" ELSE IF cid = -200 THEN "supergroup" ELSE "private"

\* chat.title: group 100 is renamed now and then, group -200 never is.
TitlesOf(cid) ==
    IF cid = 100 THEN {"Team Chat", "Team"} ELSE IF cid = -200 THEN {"Ops"} ELSE {""}

\* Midnight UTC of 2024-01-05 and of 2024-01-06.
Jan5 == MidnightUTC([d |-> 5, m |-> 1, y |-> 2024])
Jan6 == MidnightUTC([d |-> 6, m |-> 1, y |-> 2024])

\* The text messages of the model: <<from_user.id, date>>.
MsgKinds == {<<42, Jan5>>, <<42, Jan6>>, <<7, Jan5>>}

\* Command-line tokens.
S_100 == <<"1", "0", "0">>
S_0100 == <<"0", "1", "0", "0">>
S_m200 == <<"-", "2", "0", "0">>
S_999 == <<"9", "9", "9">>
S_abc == <<"a", "b", "c">>
S_at_alice == <<"@">> \o S_alice
S_bob == <<"b", "o", "b">>
D_0104 == <<"2", "0", "2", "4", "-", "0", "1", "-", "0", "4">>
D_0105 == <<"2", "0", "2", "4", "-", "0", "1", "-", "0", "5">>
D_0106 == <<"2", "0", "2", "4", "-", "0", "1", "-", "0", "6">>
D_15 == <<"2", "0", "2", "4", "-", "1", "-", "5">>
D_dmy == <<"0", "5", "-", "0", "1", "-", "2", "0", "2", "4">>
D_0230 == <<"2", "0", "2", "4", "-", "0", "2", "-", "3", "0">>
D_max == <<"9", "9", "9", "9", "-", "1", "2", "-", "3", "1">>

\* context.args of the /count commands of the model.
CountArgs ==
    { <<S_100, S_alice, D_0105, D_0105>>,
      <<S_0100, S_at_alice, D_15, D_0106>>,
      <<S_100, S_alice, D_0104, D_0104>>,
      <<S_m200, S_alice, D_0106, D_0106>>,
      <<S_m200, S_bob, D_0105, D_0106>>,
      <<S_999, S_alice, D_0105, D_0106>>,
      <<S_999, S_alice, D_0105, D_max>>,
      <<S_100, S_alice, D_0105>>,
      <<S_abc, S_alice, D_0105, D_0106>>,
      <<S_100, S_alice, D_dmy, D_0106>>,
      <<S_999, S_alice, D_0105, D_0230>>,
      <<S_100, S_Alice, D_0105, D_0106>>,
      <<S_100, S_alice, D_0105, D_max>> }

\* The /count commands of user 7 and of group chats: one that names a
\* registered group and one that names no group.
FewCountArgs == {<<S_100, S_alice, D_0105, D_0105>>, <<S_999, S_alice, D_0105, D_0106>>}

(* ------------------------------- state -------------------------------- *)

VARIABLES
    message_history,  \* self.message_history: group id -> list of records
    group_names,      \* self.group_names: group id -> title
    admin_users,      \* self.admin_users: set of user ids
    disk,             \* bot_data/: file name -> file
    update,           \* the update the dispatcher handed over last
    reply,            \* what the handler of that update answered
    running,          \* whether the process is up
    awaiting          \* the updates whose handler is suspended in an await

vars == <<message_history, group_names, admin_users, disk, update, reply,
          running, awaiting>>

mem == <<message_history, group_names, admin_users>>

(* ------------------------------- dicts -------------------------------- *)

EmptyDict == <<>>

Put(f, k, v) == [x \in DOMAIN f \cup {k} |-> IF x = k THEN v ELSE f[x]]

Del(f, k) == [x \in DOMAIN f \ {k} |-> f[x]]

\* defaultdict(list).__getitem__: the value read, a missing key reading as [].
Partition(mh, g) == IF g \in DOMAIN mh THEN mh[g] ELSE <<>>

\* The defaultdict after a read of key g: a missing key is inserted as [].
Touch(mh, g) == IF g \in DOMAIN mh THEN mh ELSE Put(mh, g, <<>>)

Range(s) == {s[i] : i \in DOMAIN s}

(* -------------------------- persistence layer ------------------------- *)

MessagesFile == "message_history.json"
GroupsFile == "group_names.json"
AdminFile == "admin_users.json"
FileNames == {AdminFile, GroupsFile, MessagesFile}

\* A file: missing, holding a JSON document (json is what json.load gives
\* back: an object as a dict, an array as a list), or cut short by a dump
\* that raised after open(..., 'w') had truncated it.
NoFile == [json |-> <<>>, st |-> "missing"]
JsonFile(doc) == [json |-> doc, st |-> "ok"]
CutFile == [json |-> <<>>, st |-> "corrupt"]

EmptyDisk == [f \in FileNames |-> NoFile]

\* The outcome of one write: "ok", "open_failed" (open raised: the file is
\* as before) or "dump_failed" (json.dump raised: the file is cut short).
\* Either failure is caught and logged.
WriteFile(d, name, doc, w) ==
    IF w = "ok" THEN [d EXCEPT ![name] = JsonFile(doc)]
    ELSE IF w = "dump_failed" THEN [d EXCEPT ![name] = CutFile]
    ELSE d

\* load_messages: a defaultdict filled from the document's items; a missing
\* or unreadable file gives the empty defaultdict.
load_messages(d) ==
    LET file == d[MessagesFile]
    IN  IF file.st = "ok"
        THEN [g \in DOMAIN file.json |-> file.json[g]]
        ELSE EmptyDict

\* load_data: the document, or default_value when the file is missing or
\* unreadable.
load_data(d, filename, default_value) ==
    IF d[filename].st = "ok" THEN d[filename].json ELSE default_value

\* save_messages: dict(self.message_history) written whole.
save_messages(d, mh, w) == WriteFile(d, MessagesFile, mh, w)

\* The orders in which list(data) may enumerate a set.
ListsOf(S) ==
    {s \in [1..Cardinality(S) -> S] : \A i, j \in DOMAIN s : i # j => s[i] # s[j]}

\* save_data for a dict or list document.
save_data(d, filename, data, w) == WriteFile(d, filename, data, w)

\* save_data for a set without the conversion to a list: json.dump raises
\* TypeError on the set.
save_data_set_unconverted(d, filename, order, w) ==
    WriteFile(d, filename, order, IF w = "ok" THEN "dump_failed" ELSE w)

\* save_data for a set: list(data), in the order `order`, is what is written.
save_data_set(d, filename, order, w) == WriteFile(d, filename, order, w)

\* set(self.admin_users) over what load_data returned (a list, or the
\* default set()).
AdminSetOf(loaded) == Range(loaded)

(* ------------------------ updates and replies ------------------------- *)

\* An update as the handlers read it.  Fields a handler does not read are
\* left at a default (from_id 0, no args, date 0, no members, left 0).
Upd(type, chat_id, title, from_id, args, date, members, left) ==
    [args |-> args, chat_id |-> chat_id, chat_type |-> ChatTypeOf(chat_id),
     date |-> date, from_id |-> from_id, left |-> left, members |-> members,
     text |-> "hi", title |-> title, type |-> type]

NoUpdate == Upd("none", 0, "", 0, <<>>, 0, <<>>, 0)

\* What a handler sent with reply_text: the message kind and the values
\* formatted into it.  "none" is no reply; "error_logged" is no reply, the
\* handler having raised into error_callback.
Reply(kind) == [count |-> 0, groups |-> EmptyDict, kind |-> kind, name |-> ""]

NoReply == Reply("none")

CountReply(name, n) == [Reply("count") EXCEPT !.name = name, !.count = n]

GroupsReply(gn) == [Reply("groups") EXCEPT !.groups = gn]

\* str(chat_id), tabulated over the chats of the model.
ChatIdStr == [cid \in GroupChatIds \cup UserIds |-> PyStr(cid)]

\* str(update.message.chat_id)
GroupIdOf(u) == ChatIdStr[u.chat_id]

(* ------------------------------ handlers ------------------------------ *)

Init ==
    /\ message_history = EmptyDict
    /\ group_names = EmptyDict
    /\ admin_users = {}
    /\ disk = EmptyDisk
    /\ update = NoUpdate
    /\ reply = NoReply
    /\ running = TRUE
    /\ awaiting = {}

\* __init__ of a new process over the files the last one left.
Restart ==
    /\ message_history' = load_messages(disk)
    /\ admin_users' = AdminSetOf(load_data(disk, AdminFile, <<>>))
    /\ group_names' = load_data(disk, GroupsFile, EmptyDict)
    /\ update' = Upd("restart", 0, "", 0, <<>>, 0, <<>>, 0)
    /\ reply' = NoReply
    /\ running' = TRUE
    /\ awaiting' = {}
    /\ UNCHANGED disk

handle_new_chat_members(u, ws) ==
    LET g  == GroupIdOf(u)
        gn == Put(group_names, g, u.title)
    IN  /\ update' = u
        /\ IF BotId \in Range(u.members)
           THEN /\ group_names' = gn
                /\ disk' = save_data(disk, GroupsFile, gn, ws[1])
                /\ reply' = Reply("thanks")
                /\ UNCHANGED <<message_history, admin_users>>
           ELSE /\ reply' = NoReply
                /\ UNCHANGED <<mem, disk>>

\* handle_left_chat with the partition left in the ledger.
handle_left_chat_keeps_partition(u, ws) ==
    LET g  == GroupIdOf(u)
        gn == Del(group_names, g)
    IN  /\ update' = u
        /\ reply' = NoReply
        /\ IF u.left = BotId /\ g \in DOMAIN group_names
           THEN /\ group_names' = gn
                /\ disk' = save_messages(save_data(disk, GroupsFile, gn, ws[1]),
                                         message_history, ws[2])
                /\ UNCHANGED <<message_history, admin_users>>
           ELSE UNCHANGED <<mem, disk>>

\* handle_left_chat without its call of save_messages.
handle_left_chat_no_save(u, ws) ==
    LET g  == GroupIdOf(u)
        gn == Del(group_names, g)
        mh == Del(message_history, g)
    IN  /\ update' = u
        /\ reply' = NoReply
        /\ IF u.left = BotId /\ g \in DOMAIN group_names
           THEN /\ group_names' = gn
                /\ message_history' = mh
                /\ disk' = save_data(disk, GroupsFile, gn, ws[1])
                /\ UNCHANGED admin_users
           ELSE UNCHANGED <<mem, disk>>

handle_left_chat(u, ws) ==
    LET g  == GroupIdOf(u)
        gn == Del(group_names, g)
        mh == Del(message_history, g)
    IN  /\ update' = u
        /\ reply' = NoReply
        /\ IF u.left = BotId /\ g \in DOMAIN group_names
           THEN /\ group_names' = gn
                /\ message_history' = mh
                /\ disk' = save_messages(save_data(disk, GroupsFile, gn, ws[1]), mh, ws[2])
                /\ UNCHANGED admin_users
           ELSE UNCHANGED <<mem, disk>>

start(u, ws) ==
    LET g  == GroupIdOf(u)
        gn == Put(group_names, g, u.title)
    IN  /\ update' = u
        /\ IF u.chat_type = "private"
           THEN /\ reply' = Reply("welcome")
                /\ UNCHANGED <<mem, disk>>
           ELSE /\ group_names' = gn
                /\ disk' = save_data(disk, GroupsFile, gn, ws[1])
                /\ reply' = Reply("ready")
                /\ UNCHANGED <<message_history, admin_users>>

\* authorize with the registry replaced by the caller alone.
authorize_replaces(u, ws) ==
    LET au == {u.from_id}
    IN  /\ update' = u
        /\ IF u.chat_type = "private"
           THEN /\ admin_users' = au
                /\ \E order \in ListsOf(au) :
                       disk' = save_data_set(disk, AdminFile, order, ws[1])
                /\ reply' = Reply("authorized")
                /\ UNCHANGED <<message_history, group_names>>
           ELSE /\ reply' = NoReply
                /\ UNCHANGED <<mem, disk>>

authorize(u, ws) ==
    LET au == admin_users \cup {u.from_id}
    IN  /\ update' = u
        /\ IF u.chat_type = "private"
           THEN /\ admin_users' = au
                /\ \E order \in ListsOf(au) :
                       disk' = save_data_set(disk, AdminFile, order, ws[1])
                /\ reply' = Reply("authorized")
                /\ UNCHANGED <<message_history, group_names>>
           ELSE /\ reply' = NoReply
                /\ UNCHANGED <<mem, disk>>

\* The gate asking only whether anyone has authorized.
Denied_without_membership(u) == u.chat_type # "private" \/ admin_users = {}

\* The gate of list_groups and count_messages.
Denied(u) == u.chat_type # "private" \/ u.from_id \notin admin_users

list_groups(u) ==
    /\ update' = u
    /\ reply' = IF Denied(u) THEN Reply("denied")
                ELSE IF DOMAIN group_names = {} THEN Reply("nogroups")
                ELSE GroupsReply(group_names)
    /\ UNCHANGED <<mem, disk>>

\* message_data of track_message.
MessageData(u) ==
    [text |-> u.text, timestamp |-> u.date,
     user_id |-> u.from_id, username |-> UsernameOf(u.from_id)]

\* track_message with the record inserted first instead of appended.
track_message_prepends(u, ws) ==
    LET g  == GroupIdOf(u)
        mh == Put(message_history, g, <<MessageData(u)>> \o Partition(message_history, g))
        gn == Put(group_names, g, u.title)
    IN  /\ update' = u
        /\ reply' = NoReply
        /\ IF u.chat_type \in {"group", "supergroup"}
           THEN /\ message_history' = mh
                /\ group_names' = gn
                /\ disk' = save_data(save_messages(disk, mh, ws[1]), GroupsFile, gn, ws[2])
                /\ UNCHANGED admin_users
           ELSE UNCHANGED <<mem, disk>>

\* track_message without its call of save_messages.
track_message_no_save(u, ws) ==
    LET g  == GroupIdOf(u)
        mh == Put(message_history, g, Append(Partition(message_history, g), MessageData(u)))
        gn == Put(group_names, g, u.title)
    IN  /\ update' = u
        /\ reply' = NoReply
        /\ IF u.chat_type \in {"group", "supergroup"}
           THEN /\ message_history' = mh
                /\ group_names' = gn
                /\ disk' = save_data(disk, GroupsFile, gn, ws[2])
                /\ UNCHANGED admin_users
           ELSE UNCHANGED <<mem, disk>>

\* track_message without the touch-up of the group registry.
track_message_no_touch_up(u, ws) ==
    LET g  == GroupIdOf(u)
        mh == Put(message_history, g, Append(Partition(message_history, g), MessageData(u)))
    IN  /\ update' = u
        /\ reply' = NoReply
        /\ IF u.chat_type \in {"group", "supergroup"}
           THEN /\ message_history' = mh
                /\ disk' = save_data(save_messages(disk, mh, ws[1]), GroupsFile,
                                     group_names, ws[2])
                /\ UNCHANGED <<group_names, admin_users>>
           ELSE UNCHANGED <<mem, disk>>

track_message(u, ws) ==
    LET g  == GroupIdOf(u)
        mh == Put(message_history, g, Append(Partition(message_history, g), MessageData(u)))
        gn == Put(group_names, g, u.title)
    IN  /\ update' = u
        /\ reply' = NoReply
        /\ IF u.chat_type \in {"group", "supergroup"}
           THEN /\ message_history' = mh
                /\ group_names' = gn
                /\ disk' = save_data(save_messages(disk, mh, ws[1]), GroupsFile, gn, ws[2])
                /\ UNCHANGED admin_users
           ELSE UNCHANGED <<mem, disk>>

\* The loop of count_messages with the end of the range left out.
RECURSIVE MessageCount_exclusive_end(_, _, _, _)
MessageCount_exclusive_end(msgs, username, start_timestamp, end_timestamp) ==
    IF msgs = <<>> THEN 0
    ELSE MessageCount_exclusive_end(Tail(msgs), username, start_timestamp, end_timestamp)
         + (IF /\ Head(msgs).username = <<username>>
               /\ start_timestamp <= Head(msgs).timestamp
               /\ Head(msgs).timestamp < end_timestamp
            THEN 1 ELSE 0)

\* The loop of count_messages over one partition.
RECURSIVE MessageCount(_, _, _, _)
MessageCount(msgs, username, start_timestamp, end_timestamp) ==
    IF msgs = <<>> THEN 0
    ELSE MessageCount(Tail(msgs), username, start_timestamp, end_timestamp)
         + (IF /\ Head(msgs).username = <<username>>
               /\ start_timestamp <= Head(msgs).timestamp
               /\ Head(msgs).timestamp <= end_timestamp
            THEN 1 ELSE 0)

\* ParseCountArgs with an except clause that names no ValueError for the
\* dates.
ParseCountArgs_dates_uncaught(args) ==
    LET gid        == PyInt(args[1])
        start_date == Strptime(args[3])
        end_date   == Strptime(args[4])
        way        == IF Len(args) # 4 THEN "usage"
                      ELSE IF ~gid.ok THEN "format_error"
                      ELSE IF ~start_date.ok \/ ~end_date.ok THEN "overflow"
                      ELSE IF NextDayOverflows(end_date) THEN "overflow"
                      ELSE "ok"
    IN  IF way = "ok"
        THEN [end_timestamp   |-> MidnightUTC(end_date) + SecondsPerDay,
              group_id        |-> PyStr(gid.val),
              start_timestamp |-> MidnightUTC(start_date),
              username        |-> Remove(args[2], "@"),
              way             |-> way]
        ELSE [end_timestamp |-> 0, group_id |-> <<>>, start_timestamp |-> 0,
              username |-> <<>>, way |-> way]

\* The argument handling of count_messages, from the length check through
\* the day added to end_date and the two timestamp() calls: which way the
\* handler goes ("usage": not four arguments; "format_error": the ValueError
\* of int() or strptime(); "overflow": the OverflowError of end_date +
\* timedelta(days=1), which the except clause does not name; "ok") and, for
\* "ok", the values it goes on with.
ParseCountArgs(args) ==
    LET gid        == PyInt(args[1])
        start_date == Strptime(args[3])
        end_date   == Strptime(args[4])
        way        == IF Len(args) # 4 THEN "usage"
                      ELSE IF ~gid.ok \/ ~start_date.ok \/ ~end_date.ok THEN "format_error"
                      ELSE IF NextDayOverflows(end_date) THEN "overflow"
                      ELSE "ok"
    IN  IF way = "ok"
        THEN [end_timestamp   |-> MidnightUTC(end_date) + SecondsPerDay,
              group_id        |-> PyStr(gid.val),
              start_timestamp |-> MidnightUTC(start_date),
              username        |-> Remove(args[2], "@"),
              way             |-> way]
        ELSE [end_timestamp |-> 0, group_id |-> <<>>, start_timestamp |-> 0,
              username |-> <<>>, way |-> way]

\* ParseCountArgs tabulated over the commands of the model.
ParsedArgs == [a \in CountArgs |-> ParseCountArgs(a)]

\* count_messages without the test of the group registry.
count_messages_no_registry_test(u) ==
    LET p == ParsedArgs[u.args]
        n == MessageCount(Partition(message_history, p.group_id), p.username,
                          p.start_timestamp, p.end_timestamp)
    IN  /\ update' = u
        /\ UNCHANGED <<group_names, admin_users, disk>>
        /\ IF Denied(u)
           THEN reply' = Reply("denied") /\ UNCHANGED message_history
           ELSE IF p.way = "usage"
           THEN reply' = Reply("usage") /\ UNCHANGED message_history
           ELSE IF p.way = "format_error"
           THEN reply' = Reply("format_error") /\ UNCHANGED message_history
           ELSE IF p.way = "overflow"
           THEN reply' = Reply("error_logged") /\ UNCHANGED message_history
           ELSE /\ message_history' = Touch(message_history, p.group_id)
                /\ reply' = CountReply("Unknown Group", n)

count_messages(u) ==
    LET p == ParsedArgs[u.args]
        n == MessageCount(Partition(message_history, p.group_id), p.username,
                          p.start_timestamp, p.end_timestamp)
    IN  /\ update' = u
        /\ UNCHANGED <<group_names, admin_users, disk>>
        /\ IF Denied(u)
           THEN reply' = Reply("denied") /\ UNCHANGED message_history
           ELSE IF p.way = "usage"
           THEN reply' = Reply("usage") /\ UNCHANGED message_history
           ELSE IF p.way = "format_error"
           THEN reply' = Reply("format_error") /\ UNCHANGED message_history
           ELSE IF p.way = "overflow"
           THEN reply' = Reply("error_logged") /\ UNCHANGED message_history
           ELSE IF p.group_id \notin DOMAIN group_names
           THEN reply' = Reply("unknown_group") /\ UNCHANGED message_history
           ELSE /\ message_history' = Touch(message_history, p.group_id)
                /\ reply' = CountReply(group_names[p.group_id], n)

(* --------------------------- the dispatcher --------------------------- *)

RECURSIVE SumLen(_, _)
SumLen(mh, keys) ==
    IF keys = {} THEN 0
    ELSE LET k == CHOOSE x \in keys : TRUE
         IN  Len(mh[k]) + SumLen(mh, keys \ {k})

TotalMsgs(mh) == SumLen(mh, DOMAIN mh)

\* new_chat_members of the join updates.
MemberLists == {<<42>>, <<7, BotId>>}

\* The updates of the model, one set per handler.
JoinUpdates ==
    UNION {{Upd("new_chat_members", cid, t, 0, <<>>, 0, ms, 0) :
                t \in TitlesOf(cid), ms \in MemberLists} : cid \in GroupChatIds}

LeaveUpdates ==
    {Upd("left_chat_member", cid, "", 0, <<>>, 0, <<>>, who) :
         cid \in GroupChatIds, who \in {BotId, 42}}

StartUpdates ==
    UNION {{Upd("start", cid, t, 42, <<>>, 0, <<>>, 0) : t \in TitlesOf(cid)} :
               cid \in GroupChatIds \cup {42}}

\* A command arrives in its sender's private chat, or from user 42 in
\* group 100.
CommandSources == {<<42, 42>>, <<7, 7>>, <<100, 42>>}

AuthorizeUpdates ==
    {Upd("authorize", c[1], "", c[2], <<>>, 0, <<>>, 0) : c \in CommandSources}

ListGroupsUpdates ==
    {Upd("listgroups", c[1], "", c[2], <<>>, 0, <<>>, 0) : c \in CommandSources}

TextUpdates ==
    UNION {{Upd("text", cid, t, k[1], <<>>, k[2], <<>>, 0) :
                t \in TitlesOf(cid), k \in MsgKinds} : cid \in GroupChatIds \cup {42}}

CountUpdates ==
    {Upd("count", 42, "", 42, a, 0, <<>>, 0) : a \in CountArgs}
    \cup {Upd("count", c[1], "", c[2], a, 0, <<>>, 0) :
              c \in {<<7, 7>>, <<100, 42>>}, a \in FewCountArgs}

\* The outcomes of a handler's writes when every write succeeds.
AllOk == <<"ok", "ok">>

Joined == \E u \in JoinUpdates : handle_new_chat_members(u, AllOk)

Left == \E u \in LeaveUpdates : handle_left_chat(u, AllOk)

StartCmd == \E u \in StartUpdates : start(u, AllOk)

AuthorizeCmd == \E u \in AuthorizeUpdates : authorize(u, AllOk)

ListGroupsCmd == \E u \in ListGroupsUpdates : list_groups(u)

TextMessage ==
    /\ TotalMsgs(message_history) < MaxMsgs
    /\ \E u \in TextUpdates : track_message(u, AllOk)

CountCmd == \E u \in CountUpdates : count_messages(u)

\* The process is up, and the handler returns: the process stays up and
\* no handler is left suspended.
Returned == running /\ UNCHANGED <<running, awaiting>>

\* run_polling without concurrent updates: each handler is awaited to its
\* return before the next update is taken.
Next ==
    \/ Joined /\ Returned
    \/ Left /\ Returned
    \/ StartCmd /\ Returned
    \/ AuthorizeCmd /\ Returned
    \/ ListGroupsCmd /\ Returned
    \/ TextMessage /\ Returned
    \/ CountCmd /\ Returned
    \/ Restart

Spec == Init /\ [][Next]_vars

(* ----------------------- a crash between two saves -------------------- *)

\* The writes of a handler whose process is killed after its first save:
\* the second write is not reached, and its file stays as it was.
CrashBetween == <<"ok", "not_reached">>

\* The process is killed inside a handler: nothing of it runs on, and
\* only a new process (Restart) follows.
Killed == running /\ running' = FALSE /\ UNCHANGED awaiting

LeftCrashed == (\E u \in LeaveUpdates : handle_left_chat(u, CrashBetween)) /\ Killed

TextMessageCrashed ==
    /\ TotalMsgs(message_history) < MaxMsgs
    /\ (\E u \in TextUpdates : track_message(u, CrashBetween)) /\ Killed

NextCrash ==
    \/ Next
    \/ LeftCrashed
    \/ TextMessageCrashed

SpecCrash == Init /\ [][NextCrash]_vars

(* ---------------------------- failing writes ------------------------- *)

\* The outcomes of a handler's writes, each of which may fail.
WriteOutcomes == {"ok", "open_failed", "dump_failed"}

\* The writes of a handler that saves one document, and of one that
\* saves two.
OneWrite == {<<w, "ok">> : w \in WriteOutcomes}

TwoWrites == {<<w1, w2>> : w1, w2 \in WriteOutcomes}

\* The updates of S that are not renames of group 100 and, when they have
\* a sender, are sent by user 42 on 2024-01-05.
Plain(S) ==
    {u \in S : u.title # "Team" /\ u.from_id \in {0, 42} /\ u.date \in {0, Jan5}}

PlainJoinUpdates == Plain(JoinUpdates)
PlainLeaveUpdates == Plain(LeaveUpdates)
PlainAuthorizeUpdates == Plain(AuthorizeUpdates)
PlainTextUpdates == Plain(TextUpdates)
PlainStartUpdates == Plain(StartUpdates)
PlainListGroupsUpdates == Plain(ListGroupsUpdates)
PlainCountUpdates == {u \in Plain(CountUpdates) : u.args \in FewCountArgs}

JoinedIO == \E u \in PlainJoinUpdates, ws \in OneWrite : handle_new_chat_members(u, ws)

LeftIO == \E u \in PlainLeaveUpdates, ws \in TwoWrites : handle_left_chat(u, ws)

AuthorizeCmdIO == \E u \in PlainAuthorizeUpdates, ws \in OneWrite : authorize(u, ws)

TextMessageIO ==
    /\ TotalMsgs(message_history) < MaxMsgs
    /\ \E u \in PlainTextUpdates, ws \in TwoWrites : track_message(u, ws)

\* The join, leave, authorize and message events with writes that may
\* fail, and the process restarted over what they left on disk.
NextIO ==
    \/ JoinedIO /\ Returned
    \/ LeftIO /\ Returned
    \/ AuthorizeCmdIO /\ Returned
    \/ TextMessageIO /\ Returned
    \/ Restart

SpecIO == Init /\ [][NextIO]_vars

(* ------------------------ handlers run concurrently ------------------- *)

\* The handlers suspended at one time.
MaxAwaiting == 2

\* The handler has called reply_text and is suspended in its await.
Suspends(r) == r.kind \notin {"none", "error_logged"}

\* The handler of u has run up to its await, if it has one, and other
\* handlers run before it is resumed.
RanToAwait(u) ==
    /\ running
    /\ IF Suspends(reply')
       THEN Cardinality(awaiting) < MaxAwaiting /\ awaiting' = awaiting \cup {u}
       ELSE UNCHANGED awaiting
    /\ UNCHANGED running

\* handle_new_chat_members registering the group, and saving the registry,
\* after its await of reply_text.
resume_registers_group(u) ==
    IF u.type = "new_chat_members" /\ BotId \in Range(u.members)
    THEN LET gn == Put(group_names, GroupIdOf(u), u.title)
         IN  /\ group_names' = gn
             /\ disk' = save_data(disk, GroupsFile, gn, "ok")
             /\ UNCHANGED <<message_history, admin_users, update, reply>>
    ELSE UNCHANGED <<mem, disk, update, reply>>

\* What a handler does after its await of reply_text: handle_new_chat_members
\* goes through the members left, none of them the bot; every other
\* handler returns.
resume(u) == UNCHANGED <<mem, disk, update, reply>>

JoinedAwait ==
    \E u \in PlainJoinUpdates \ awaiting :
        handle_new_chat_members(u, AllOk) /\ RanToAwait(u)

LeftAwait ==
    \E u \in PlainLeaveUpdates \ awaiting : handle_left_chat(u, AllOk) /\ RanToAwait(u)

StartCmdAwait ==
    \E u \in PlainStartUpdates \ awaiting : start(u, AllOk) /\ RanToAwait(u)

AuthorizeCmdAwait ==
    \E u \in PlainAuthorizeUpdates \ awaiting : authorize(u, AllOk) /\ RanToAwait(u)

ListGroupsCmdAwait ==
    \E u \in PlainListGroupsUpdates \ awaiting : list_groups(u) /\ RanToAwait(u)

TextMessageAwait ==
    /\ TotalMsgs(message_history) < MaxMsgs
    /\ \E u \in PlainTextUpdates \ awaiting :
           track_message(u, AllOk) /\ RanToAwait(u)

CountCmdAwait ==
    \E u \in PlainCountUpdates \ awaiting : count_messages(u) /\ RanToAwait(u)

Resumed ==
    /\ running
    /\ \E u \in awaiting : resume(u) /\ awaiting' = awaiting \ {u}
    /\ UNCHANGED running

\* One process whose handlers run concurrently: an update is taken while
\* the handlers of earlier updates are suspended in their awaits.
NextAwait ==
    \/ JoinedAwait
    \/ LeftAwait
    \/ StartCmdAwait
    \/ AuthorizeCmdAwait
    \/ ListGroupsCmdAwait
    \/ TextMessageAwait
    \/ CountCmdAwait
    \/ Resumed

SpecAwait == Init /\ [][NextAwait]_vars

(* ---------------------- documents saved and loaded -------------------- *)

\* The sequences over S of length at most n.
RECURSIVE SeqsUpTo(_, _)
SeqsUpTo(S, n) ==
    IF n = 0 THEN {<<>>}
    ELSE LET shorter == SeqsUpTo(S, n - 1)
         IN  shorter \cup {Append(q, x) : q \in shorter, x \in S}

\* The records a ledger document may hold.
Records == {MessageData(u) : u \in TextUpdates}

\* The valid documents: a ledger, a group registry, an admin registry.
LedgerDocs ==
    UNION {[ks -> SeqsUpTo(Records, MaxDocLen)] :
               ks \in SUBSET {ChatIdStr[cid] : cid \in GroupChatIds}}

GroupDocs ==
    UNION {{f \in [ks -> UNION {TitlesOf(cid) : cid \in GroupChatIds}] :
                \A cid \in GroupChatIds :
                    ChatIdStr[cid] \in ks => f[ChatIdStr[cid]] \in TitlesOf(cid)} :
               ks \in SUBSET {ChatIdStr[cid] : cid \in GroupChatIds}}

AdminDocs == SUBSET UserIds

\* A process holding any valid documents, over an empty data directory.
InitRT ==
    /\ message_history \in LedgerDocs
    /\ group_names \in GroupDocs
    /\ admin_users \in AdminDocs
    /\ disk = EmptyDisk
    /\ update = NoUpdate
    /\ reply = NoReply
    /\ running = TRUE
    /\ awaiting = {}

\* One call of save_messages / save_data on a document held in memory.
SaveMessages ==
    /\ disk' = save_messages(disk, message_history, "ok")
    /\ UNCHANGED <<mem, update, reply, running, awaiting>>

SaveGroupNames ==
    /\ disk' = save_data(disk, GroupsFile, group_names, "ok")
    /\ UNCHANGED <<mem, update, reply, running, awaiting>>

SaveAdminUsers ==
    /\ \E order \in ListsOf(admin_users) :
           disk' = save_data_set(disk, AdminFile, order, "ok")
    /\ UNCHANGED <<mem, update, reply, running, awaiting>>

NextRT ==
    \/ SaveMessages
    \/ SaveGroupNames
    \/ SaveAdminUsers
    \/ Restart

SpecRT == InitRT /\ [][NextRT]_vars

(* ------------------------- notions of the claims ---------------------- *)

\* The group ids of the model's chats, and any other key in use.
GroupIds ==
    {ChatIdStr[cid] : cid \in GroupChatIds}
    \cup DOMAIN message_history \cup DOMAIN group_names

IsPrefix(p, q) == Len(p) <= Len(q) /\ SubSeq(q, 1, Len(p)) = p

\* The last update was the bot joining a group / being removed from one /
\* a text message in a group.
BotJoined(u) == u.type = "new_chat_members" /\ BotId \in Range(u.members)
BotLeft(u) == u.type = "left_chat_member" /\ u.left = BotId
GroupText(u) == u.type = "text" /\ u.chat_type \in {"group", "supergroup"}

\* A query from a user of the Admin Registry, asked where the gate lets it
\* through.
Authorized(u) == u.from_id \in admin_users /\ u.chat_type = "private"

\* The registries and the ledger a new process would load.
LoadedLedger == load_messages(disk)
LoadedGroups == load_data(disk, GroupsFile, EmptyDict)
LoadedAdmins == AdminSetOf(load_data(disk, AdminFile, <<>>))

\* The count command's arguments as the claims read them.
ArgsWellFormed(args) ==
    /\ Len(args) = 4
    /\ PyInt(args[1]).ok
    /\ Strptime(args[3]).ok
    /\ Strptime(args[4]).ok

QueryAnswers == {"groups", "nogroups", "count", "usage", "format_error", "unknown_group"}

(* ------------------------------- claims ------------------------------- *)

C1_NoOrphan == DOMAIN message_history \subseteq DOMAIN group_names

\* A join registers the group and leaves the ledger as it was.
C1_JoinStep ==
    BotJoined(update') =>
        LET g == GroupIdOf(update')
        IN  /\ g \in DOMAIN group_names'
            /\ group_names'[g] = update'.title
            /\ message_history' = message_history
            /\ (g \notin DOMAIN group_names => Partition(message_history', g) = <<>>)

HalfOpenCount(msgs, username, from, to) ==
    Cardinality({i \in DOMAIN msgs :
                    /\ msgs[i].username = <<username>>
                    /\ from <= msgs[i].timestamp
                    /\ msgs[i].timestamp < to})

\* C2: a count that is answered with a number answers the number of
\* records of the group's partition with the username asked for and a
\* timestamp t with midnight(d1) <= t < midnight(d2 + 1 day).
C2_HalfOpenCount ==
    (update.type = "count" /\ reply.kind = "count") =>
        LET p == ParseCountArgs(update.args)
        IN  reply.count = HalfOpenCount(Partition(message_history, p.group_id),
                                        p.username, p.start_timestamp, p.end_timestamp)

\* C3: a listgroups or count command of a user outside the Admin Registry
\* is denied and changes nothing; that of a user inside it gets the
\* listing, the count, the usage error or UnknownGroup.
C3_AuthorizationGate ==
    [][update'.type \in {"listgroups", "count"} =>
          IF update'.from_id \notin admin_users
          THEN reply'.kind = "denied" /\ UNCHANGED <<mem, disk>>
          ELSE reply'.kind \in QueryAnswers]_vars

\* C3 (amended): a listgroups or count command is denied, and changes
\* nothing, when its sender is outside the Admin Registry or the chat is
\* not private; sent in a private chat by a user of the registry,
\* listgroups is answered with the listing of the registry (or the notice
\* that there are no groups) and count is not denied: it gets the count,
\* the usage error or UnknownGroup, or no reply when the handler raises.
C3_Amended ==
    [][update'.type \in {"listgroups", "count"} =>
          IF ~Authorized(update')
          THEN reply'.kind = "denied" /\ UNCHANGED <<mem, disk>>
          ELSE /\ reply'.kind # "denied"
               /\ update'.type = "listgroups" =>
                      reply' = IF DOMAIN group_names = {} THEN Reply("nogroups")
                               ELSE GroupsReply(group_names)
               /\ update'.type = "count" =>
                      reply'.kind \in (QueryAnswers \cup {"error_logged"})
                                         \ {"groups", "nogroups"}]_vars

\* One user of the registry is given the listing while the other user is
\* outside the registry.
C3_Witness ==
    /\ update.type = "listgroups"
    /\ Authorized(update)
    /\ admin_users # UserIds
    /\ reply.kind = "groups"
    /\ reply.groups = group_names

\* C4: an authorized count with well-formed arguments for a group id that
\* is no key of the group registry is answered UnknownGroup and changes
\* nothing.
C4_UnknownGroup ==
    [][(/\ update'.type = "count"
        /\ Authorized(update')
        /\ ArgsWellFormed(update'.args)
        /\ PyStr(PyInt(update'.args[1]).val) \notin DOMAIN group_names)
       => reply'.kind = "unknown_group" /\ UNCHANGED <<mem, disk>>]_vars

\* C5: an authorized count with other than four arguments, a group id
\* that is no integer or a date that is no YYYY-MM-DD date is answered
\* with the usage error and changes nothing.
C5_MalformedCommand ==
    [][(/\ update'.type = "count"
        /\ Authorized(update')
        /\ ~ArgsWellFormed(update'.args))
       => reply'.kind \in {"usage", "format_error"} /\ UNCHANGED <<mem, disk>>]_vars

C5_Witness ==
    /\ update.type = "count"
    /\ Authorized(update)
    /\ Len(update.args) = 4
    /\ PyInt(update.args[1]).ok
    /\ ~Strptime(update.args[4]).ok
    /\ reply.kind = "format_error"
    /\ DOMAIN message_history # {}

\* C6: but for the step in which the bot leaves g, every step keeps g's
\* partition as a prefix of what it becomes; a text message in g appends
\* exactly its record, and leaves the partition of every other group as
\* it was.
C6_AppendOnly ==
    [][\A g \in GroupIds :
          LET before == Partition(message_history, g)
              after  == Partition(message_history', g)
          IN  /\ ~(BotLeft(update') /\ GroupIdOf(update') = g) => IsPrefix(before, after)
              /\ (GroupText(update') /\ GroupIdOf(update') = g)
                     => after = Append(before, MessageData(update'))
              /\ (GroupText(update') /\ GroupIdOf(update') # g) => after = before]_vars

C6_Witness ==
    /\ GroupText(update)
    /\ LET part == Partition(message_history, GroupIdOf(update))
       IN  /\ Len(part) = 2
           /\ part[1] # part[2]
           /\ part[2] = MessageData(update)

\* After the bot has left g: g is in neither the registry nor the ledger,
\* in memory and as a new process would load them.
C7_LeaveState ==
    BotLeft(update) =>
        LET g == GroupIdOf(update)
        IN  /\ g \notin DOMAIN group_names
            /\ g \notin DOMAIN message_history
            /\ g \notin DOMAIN LoadedGroups
            /\ g \notin DOMAIN LoadedLedger

\* A listing asked for right after the bot has left g does not name g.
C7_ListStep ==
    (BotLeft(update) /\ update'.type = "listgroups" /\ Authorized(update'))
        => /\ reply'.kind \in {"groups", "nogroups"}
           /\ GroupIdOf(update) \notin DOMAIN reply'.groups

\* C7: once the bot has left g, g is in neither the registry nor the
\* ledger, in memory and as a new process would load them, and a listing
\* asked for next does not name g.
C7_LeaveDiscards == []C7_LeaveState /\ [][C7_ListStep]_vars

\* The bot has left group 100, which had messages on disk, as group -200
\* still has.
C7_Witness ==
    /\ BotLeft(update)
    /\ update.chat_id = 100
    /\ disk[MessagesFile].st = "ok"
    /\ DOMAIN disk[MessagesFile].json = {ChatIdStr[-200]}
    /\ DOMAIN group_names = {ChatIdStr[-200]}

C9_AuthorizeAnywhere == update.type = "authorize" => update.from_id \in admin_users

\* After authorize in a private chat the sender is in the registry, in
\* memory and on disk.
C9_AuthorizeState ==
    (update.type = "authorize" /\ update.chat_type = "private") =>
        /\ update.from_id \in admin_users
        /\ update.from_id \in LoadedAdmins
        /\ reply.kind = "authorized"

\* The registry only grows; authorize of a member, or in a group, changes
\* nothing.
C9_AuthorizeStep ==
    /\ admin_users \subseteq admin_users'
    /\ (update'.type = "authorize" /\ update'.from_id \in admin_users)
           => admin_users' = admin_users
    /\ (update'.type = "authorize" /\ update'.chat_type # "private")
           => UNCHANGED <<mem, disk>>

\* C9 (amended): after an authorize command sent in a private chat its
\* sender is in the Admin Registry and in the persisted admin document;
\* authorize by a user already in the registry leaves the registry as it
\* was; an authorize command sent in a group changes nothing; no step
\* removes a user id from the registry.
C9_Amended == []C9_AuthorizeState /\ [][C9_AuthorizeStep]_vars

\* The second user has authorized after the first.
C9_Witness ==
    /\ update.type = "authorize"
    /\ update.chat_type = "private"
    /\ admin_users = UserIds
    /\ LoadedAdmins = UserIds

\* C10: after a text message in group g the ledger document on disk, as a
\* new process would load it, has the message's record last in g's
\* partition.
C10_WriteThrough ==
    GroupText(update) =>
        LET part == Partition(LoadedLedger, GroupIdOf(update))
        IN  part # <<>> /\ part[Len(part)] = MessageData(update)

C10_Witness ==
    /\ GroupText(update)
    /\ Len(Partition(LoadedLedger, GroupIdOf(update))) = 2

\* After a text message in group g titled n: the registry maps g to n, g is
\* a key of the ledger, and both documents are on disk as they are in
\* memory.
C11_MessageState ==
    GroupText(update) =>
        LET g == GroupIdOf(update)
        IN  /\ g \in DOMAIN group_names
            /\ group_names[g] = update.title
            /\ g \in DOMAIN message_history
            /\ disk[GroupsFile] = JsonFile(group_names)
            /\ disk[MessagesFile] = JsonFile(message_history)

\* The message overwrites g's entry of the registry, whatever it was, and
\* no other entry.
C11_MessageStep ==
    GroupText(update') =>
        group_names' = Put(group_names, GroupIdOf(update'), update'.title)

\* C11: after a text message in group g titled n the group registry maps g
\* to n, whatever it held for g before, and g has a ledger partition, also
\* when g was in neither the registry nor the ledger; both documents are
\* persisted.
C11_TouchUp == []C11_MessageState /\ [][C11_MessageStep]_vars

\* The first message of group 100 has been tracked under the group's
\* second title; the registry and the ledger on disk hold group 100 alone.
C11_Witness ==
    /\ GroupText(update)
    /\ update.chat_id = 100
    /\ update.title = "Team"
    /\ Len(message_history[GroupIdOf(update)]) = 1
    /\ DOMAIN LoadedGroups = {GroupIdOf(update)}
    /\ DOMAIN LoadedLedger = {GroupIdOf(update)}

\* The records of msgs by username whose timestamp lies in [from, to].
InclusiveCount(msgs, username, from, to) ==
    Cardinality({i \in DOMAIN msgs :
                    /\ msgs[i].username = <<username>>
                    /\ from <= msgs[i].timestamp
                    /\ msgs[i].timestamp <= to})

\* C12: a count that is answered with a number answers the number of
\* records of the addressed partition whose username is the one asked for,
\* letter for letter, and whose timestamp t has startTimestamp <= t <=
\* endTimestamp, endTimestamp being midnight UTC of the day after the end
\* date.
C12_ScanPredicate ==
    (update.type = "count" /\ reply.kind = "count") =>
        LET a == update.args
        IN  reply.count =
                InclusiveCount(Partition(message_history, PyStr(PyInt(a[1]).val)),
                               Remove(a[2], "@"),
                               MidnightUTC(Strptime(a[3])),
                               MidnightUTC(Strptime(a[4])) + SecondsPerDay)

\* Of two records of group 100 one is counted: that of alice, stamped at
\* the very end of the range asked for.
C12_Witness ==
    /\ update.type = "count"
    /\ update.args = <<S_100, S_alice, D_0105, D_0105>>
    /\ reply.kind = "count"
    /\ reply.count = 1
    /\ Len(Partition(message_history, S_100)) = 2
    /\ \E i \in {1, 2} :
           /\ message_history[S_100][i].username = <<S_alice>>
           /\ message_history[S_100][i].timestamp = Jan6
           /\ message_history[S_100][3 - i].username = <<>>

\* C13: an authorized count with well-formed arguments for a group of the
\* group registry is answered with a number; the number is 0 when the
\* group's partition is empty or missing, or holds no record of the
\* username within the range.
C13_CountAnswered ==
    [][(/\ update'.type = "count"
        /\ Authorized(update')
        /\ ArgsWellFormed(update'.args)
        /\ PyStr(PyInt(update'.args[1]).val) \in DOMAIN group_names)
       => LET a    == update'.args
              part == Partition(message_history, PyStr(PyInt(a[1]).val))
          IN  /\ reply'.kind = "count"
              /\ reply'.count \in Nat
              /\ (part = <<>> => reply'.count = 0)
              /\ ((\A i \in DOMAIN part : part[i].username # <<Remove(a[2], "@")>>)
                     => reply'.count = 0)]_vars

\* C14: with a crash allowed between the two saves of a handler, the
\* ledger document on disk never holds a partition for a group that the
\* registry document on disk does not hold: a new group reaches the
\* registry file before the ledger file, a group that is left goes from
\* the ledger file before it goes from the registry file.
C14_PersistOrdering == DOMAIN LoadedLedger \subseteq DOMAIN LoadedGroups

\* The mutation of memory that the event of update u makes.
MutationKept(u) ==
    LET g == GroupIdOf(u)
    IN  /\ BotJoined(u) => group_names' = Put(group_names, g, u.title)
        /\ (BotLeft(u) /\ g \in DOMAIN group_names) =>
               /\ group_names' = Del(group_names, g)
               /\ message_history' = Del(message_history, g)
        /\ GroupText(u) =>
               /\ group_names' = Put(group_names, g, u.title)
               /\ message_history' =
                      Put(message_history, g,
                          Append(Partition(message_history, g), MessageData(u)))
        /\ (u.type = "authorize" /\ u.chat_type = "private") =>
               admin_users' = admin_users \cup {u.from_id}

\* Each document on disk loads as it did before the event (its last
\* successful save) or as the event leaves it in memory (a save that has
\* succeeded now).
LastSaveKept ==
    /\ load_messages(disk') \in {load_messages(disk), message_history'}
    /\ load_data(disk', GroupsFile, EmptyDict)
           \in {load_data(disk, GroupsFile, EmptyDict), group_names'}
    /\ AdminSetOf(load_data(disk', AdminFile, <<>>))
           \in {AdminSetOf(load_data(disk, AdminFile, <<>>)), admin_users'}

\* C15: in a join, leave, message or authorize event whose saves may fail,
\* the handler does not raise, the event's mutation of memory is kept, and
\* each document on disk keeps the content of its last successful save
\* unless it is saved now.
C15_WriteFailure ==
    [][update'.type \in {"new_chat_members", "left_chat_member", "text", "authorize"}
          => /\ reply'.kind # "error_logged"
             /\ running'
             /\ MutationKept(update')
             /\ LastSaveKept]_vars

\* C16: every group id with a partition in the in-memory ledger is a key
\* of the in-memory group registry.
C16_NoOrphanPartition == \A g \in DOMAIN message_history : g \in DOMAIN group_names

\* A count has read the partition of one registered group, which holds a
\* message, while the other registered group has no partition.
C16_Witness ==
    /\ update.type = "count"
    /\ reply.kind = "count"
    /\ Cardinality(DOMAIN group_names) = 2
    /\ \E g \in DOMAIN group_names :
           /\ g \in DOMAIN message_history
           /\ message_history[g] # <<>>
           /\ DOMAIN message_history = {g}

\* C17: a listgroups or count command, whatever it is answered, leaves the
\* in-memory ledger with its set of partition keys, the group registry,
\* the admin registry and the three documents on disk as they were.
C17_QueriesReadOnly ==
    [][update'.type \in {"listgroups", "count"} => UNCHANGED <<mem, disk>>]_vars

\* C18: after every event each document on disk, as a new process would
\* load it, equals its counterpart in memory: the ledger, the group
\* registry, and the admin registry as a set.
C18_MemoryDiskAgreement ==
    /\ LoadedLedger = message_history
    /\ LoadedGroups = group_names
    /\ LoadedAdmins = admin_users

\* A step in which a suspended handler is resumed changes neither memory
\* nor disk.
C19_ResumeStep ==
    (awaiting' # awaiting /\ awaiting' \subseteq awaiting) => UNCHANGED <<mem, disk>>

\* On memory, disk, update and reply the step is one of the dispatcher
\* that awaits each handler to its return, or changes nothing.
C19_SequentialStep ==
    \/ Joined
    \/ Left
    \/ StartCmd
    \/ AuthorizeCmd
    \/ ListGroupsCmd
    \/ TextMessage
    \/ CountCmd
    \/ UNCHANGED <<mem, disk, update, reply>>

\* C19: with handlers interleaved at their awaits, no handler changes
\* memory or disk after an await, and every step is, on memory and disk, a
\* step of the handlers run one after another: the interleaved run has
\* the ledger, registries and documents of a sequential run of the same
\* events.
C19_Serialized == [][C19_ResumeStep /\ C19_SequentialStep]_vars

\* The handler of the bot's join to a group is still suspended in its
\* await while the bot has been removed from the group and a second
\* handler is suspended too.
C19_Witness ==
    /\ BotLeft(update)
    /\ Cardinality(awaiting) = 2
    /\ \E u \in awaiting :
           /\ BotJoined(u)
           /\ GroupIdOf(u) = GroupIdOf(update)
           /\ GroupIdOf(u) \notin DOMAIN group_names

====
